---------------------------- MODULE Spec2Model ----------------------------
(***************************************************************************)
(* parse-bookmarks: a Netscape bookmark file is parsed into a DOM, every   *)
(* H3 (folder marker) is turned into a flat Bookmark record carrying the   *)
(* title of its enclosing folder (parseBookmarks), and the flat records    *)
(* are assembled into one tree by title matching (buildTree /              *)
(* buildSubTree).  The repository holds the program in two forms that      *)
(* differ in parseBookmarks only: one appends the records to a slice       *)
(* (parse-bookmarks.go:53-96, repeated at 201-235), the other stores them  *)
(* in a map keyed by title and ranges over the map                         *)
(* (parse-bookmarks.go:335-395).  variant says which form runs.            *)
(*                                                                         *)
(* Strings that the program only compares (titles, urls, tag names) are    *)
(* TLA+ strings.  Timestamp attributes, which the program parses, are      *)
(* sequences of one-character strings.  A Go pointer or an optional        *)
(* attribute is a sequence of length 0 (nil / missing) or 1.               *)
(***************************************************************************)
EXTENDS Integers, Sequences, FiniteSets, TLC

(***************************************************************************)
(* Bounds of the model.                                                    *)
(***************************************************************************)
\* folders (H3 elements) in a generated bookmark file
MaxFolders == 3
\* records in a flat collection handed to buildTree directly
MaxRecords == 3
\* characters in an enumerated timestamp attribute
MaxTsLen == 2
\* call depth of buildSubTree at which the Go runtime's stack limit is
\* taken to be hit; deeper than any chain of distinct titles in the model
MaxDepth == MaxFolders + MaxRecords + 2

(***************************************************************************)
(* Generic helpers.                                                        *)
(***************************************************************************)
RECURSIVE Concat(_)
Concat(ss) == IF ss = <<>> THEN <<>> ELSE Head(ss) \o Concat(Tail(ss))

RECURSIVE SelectIdx(_, _)
\* the indices of s, ascending, at which s holds TRUE
SelectIdx(s, i) ==
    IF i > Len(s) THEN <<>>
    ELSE (IF s[i] THEN <<i>> ELSE <<>>) \o SelectIdx(s, i + 1)

Range(s) == {s[i] : i \in DOMAIN s}

(***************************************************************************)
(* The DOM and the goquery operations the program uses.  An element is     *)
(* [tag, text, attrs, kids]; a node is named by its path of child indices  *)
(* from the document root; a Selection is a sequence of paths in document  *)
(* order, empty when nothing is selected.                                  *)
(***************************************************************************)
NoAttrs == [add_date |-> <<>>, last_modified |-> <<>>, href |-> <<>>]

El(tag, text, attrs, kids) ==
    [tag |-> tag, text |-> text, attrs |-> attrs, kids |-> kids]

RECURSIVE NodeAt(_, _)
NodeAt(node, path) ==
    IF path = <<>> THEN node ELSE NodeAt(node.kids[Head(path)], Tail(path))

RECURSIVE FindIn(_, _, _)
FindIn(node, path, tag) ==
    Concat([i \in 1..Len(node.kids) |->
        (IF node.kids[i].tag = tag THEN <<Append(path, i)>> ELSE <<>>)
        \o FindIn(node.kids[i], Append(path, i), tag)])

\* doc.Find("H3"): the descendants with the tag, in document order
Find(d, tag) == FindIn(d, <<>>, tag)

\* Selection.Is(tag): some selected element has the tag
Is(d, sel, tag) == \E i \in DOMAIN sel : NodeAt(d, sel[i]).tag = tag

\* Selection.Text() of at most one element
Text(d, sel) == IF sel = <<>> THEN "" ELSE NodeAt(d, sel[1]).text

\* Selection.AttrOr(name, def): the first element's attribute, or def
AttrOr(d, sel, name, def) ==
    IF sel = <<>> THEN def
    ELSE LET a == NodeAt(d, sel[1]).attrs[name]
         IN  IF a = <<>> THEN def ELSE a[1]

\* Selection.Next(): the following sibling element
SelNext(d, sel) ==
    IF sel = <<>> \/ sel[1] = <<>> THEN <<>>
    ELSE LET p   == sel[1]
             par == SubSeq(p, 1, Len(p) - 1)
             k   == p[Len(p)]
         IN  IF k < Len(NodeAt(d, par).kids) THEN <<Append(par, k + 1)>> ELSE <<>>

\* Selection.Prev(): the preceding sibling element
SelPrev(d, sel) ==
    IF sel = <<>> \/ sel[1] = <<>> THEN <<>>
    ELSE LET p   == sel[1]
             par == SubSeq(p, 1, Len(p) - 1)
             k   == p[Len(p)]
         IN  IF k > 1 THEN <<Append(par, k - 1)>> ELSE <<>>

\* Selection.Parent()
SelParent(d, sel) ==
    IF sel = <<>> \/ sel[1] = <<>> THEN <<>>
    ELSE <<SubSeq(sel[1], 1, Len(sel[1]) - 1)>>

\* Selection.Children() of at most one element
Children(d, sel) ==
    IF sel = <<>> THEN <<>>
    ELSE [i \in 1..Len(NodeAt(d, sel[1]).kids) |-> Append(sel[1], i)]

\* Selection.ChildrenFiltered(tag)
ChildrenFiltered(d, sel, tag) ==
    LET c == Children(d, sel)
    IN  [i \in 1..Len(SelectIdx([j \in DOMAIN c |-> NodeAt(d, c[j]).tag = tag], 1)) |->
            c[SelectIdx([j \in DOMAIN c |-> NodeAt(d, c[j]).tag = tag], 1)[i]]]

\* Selection.First()
First(sel) == IF sel = <<>> THEN <<>> ELSE <<sel[1]>>

(***************************************************************************)
(* parseTime and strconv.ParseInt(s, 10, 64).  An int64 is kept as its     *)
(* canonical decimal form [neg, mag], mag the digits without leading       *)
(* zeros, so that the 64-bit range check is exact.                         *)
(***************************************************************************)
Digits == <<"0", "1", "2", "3", "4", "5", "6", "7", "8", "9">>

IsDigit(c) == \E i \in DOMAIN Digits : Digits[i] = c

DigitVal(c) == (CHOOSE i \in DOMAIN Digits : Digits[i] = c) - 1

RECURSIVE StripZeros(_)
StripZeros(ds) ==
    IF Len(ds) > 1 /\ Head(ds) = 0 THEN StripZeros(Tail(ds)) ELSE ds

RECURSIVE LexLess(_, _)
LexLess(a, b) ==
    IF a = <<>> THEN FALSE
    ELSE IF Head(a) # Head(b) THEN Head(a) < Head(b)
    ELSE LexLess(Tail(a), Tail(b))

\* a < b for digit sequences without leading zeros
MagLess(a, b) == Len(a) < Len(b) \/ (Len(a) = Len(b) /\ LexLess(a, b))

\* 1 << 63, the cutoff of ParseInt for bitSize 64
Cutoff64 == <<9, 2, 2, 3, 3, 7, 2, 0, 3, 6, 8, 5, 4, 7, 7, 5, 8, 0, 8>>

\* strconv.ParseInt(s, 10, 64): [err, val], err "" on success
ParseInt(s) ==
    LET neg  == s # <<>> /\ s[1] = "-"
        body == IF s # <<>> /\ s[1] \in {"+", "-"} THEN Tail(s) ELSE s
        mag  == StripZeros([i \in DOMAIN body |-> DigitVal(body[i])])
        zero == [neg |-> FALSE, mag |-> <<0>>]
    IN  IF body = <<>> \/ \E i \in DOMAIN body : ~IsDigit(body[i])
        THEN [err |-> "invalid syntax", val |-> zero]
        ELSE IF (~neg /\ ~MagLess(mag, Cutoff64)) \/ (neg /\ MagLess(Cutoff64, mag))
        THEN [err |-> "value out of range", val |-> zero]
        ELSE [err |-> "", val |-> [neg |-> neg /\ mag # <<0>>, mag |-> mag]]

\* time.Unix(ts, 0)
TimeUnix(ts) == [sec |-> ts]

\* parseTime going on to time.Unix after a failed ParseInt (the early
\* return forgotten)
parseTime_NoReturn(timestamp) ==
    IF Len(timestamp) = 0 THEN [t |-> <<>>, log |-> <<>>]
    ELSE LET r == ParseInt(timestamp)
         IN  IF r.err # ""
             THEN [t |-> <<TimeUnix(r.val)>>, log |-> <<"error parsing timestamp">>]
             ELSE [t |-> <<TimeUnix(r.val)>>, log |-> <<>>]

\* parseTime: [t, log], t the *time.Time (<<>> is nil), log what it prints
parseTime(timestamp) ==
    IF Len(timestamp) = 0 THEN [t |-> <<>>, log |-> <<>>]
    ELSE LET r == ParseInt(timestamp)
         IN  IF r.err # ""
             THEN [t |-> <<>>, log |-> <<"error parsing timestamp">>]
             ELSE [t |-> <<TimeUnix(r.val)>>, log |-> <<>>]


(***************************************************************************)
(* The bookmark files the model runs the program on.  A file is described  *)
(* by its folders 1..n (n may be 0) in document order: parent[k] is the    *)
(* enclosing folder (0 at top level) and title[k] the text of its H3.      *)
(* links says what the folders hold besides subfolders: "none" (a leaf     *)
(* folder has no DL after its H3), "empty" (every folder has a DL, no      *)
(* folder a link) or "some" (folder 1 holds two links, every other folder  *)
(* one, all distinct).  style is the top of the document: "dl" (the        *)
(* top-level folders sit in a DL that opens the body), "h1dl" (an H1       *)
(* precedes that DL) or "bare" (the top-level H3 and DL sit in the body    *)
(* directly).  hts is the add_date attribute of folder 1's H3 and ats the  *)
(* last_modified attribute of folder 1's first link; every other element   *)
(* carries add_date = SampleTs and no last_modified.                       *)
(***************************************************************************)
FolderNames == <<"A", "B", "C", "D", "E">>

LinkNames == <<"l1", "l2", "l3", "l4", "l5", "l6", "l7", "l8", "l9", "l10", "l11", "l12">>

UrlNames == <<"u1", "u2", "u3", "u4", "u5", "u6", "u7", "u8", "u9", "u10", "u11", "u12">>

SampleTs == <<"1", "6", "3", "4", "4", "5", "4", "3", "0", "0">>

TsChars == {"1", "7", "-", "+", "x"}

MaxInt64Ts == <<"9", "2", "2", "3", "3", "7", "2", "0", "3", "6", "8", "5", "4", "7", "7", "5", "8", "0", "7">>

OverInt64Ts == <<"9", "2", "2", "3", "3", "7", "2", "0", "3", "6", "8", "5", "4", "7", "7", "5", "8", "0", "8">>

\* the attribute values tried: missing (<<>>) or present (<<value>>)
TsAttrs ==
    {<<>>}
    \cup {<<s>> : s \in UNION {[1..k -> TsChars] : k \in 0..MaxTsLen}}
    \cup {<<SampleTs>>, <<MaxInt64Ts>>, <<OverInt64Ts>>,
          <<(<<"-">> \o OverInt64Ts)>>, <<(<<"-", "9">> \o OverInt64Ts)>>,
          <<(<<"0", "0">> \o OverInt64Ts)>>, <<(<<"0", "0", "7">>)>>, <<(<<" ", "7">>)>>}

RECURSIVE AncestorsOrSelf(_, _)
AncestorsOrSelf(parent, k) ==
    IF k = 0 THEN {} ELSE {k} \cup AncestorsOrSelf(parent, parent[k])

\* parent vectors of n folders numbered in document order
ParentVectors(n) ==
    {p \in [1..n -> 0..(n - 1)] :
        \A k \in 1..n : p[k] = 0 \/ (k > 1 /\ p[k] \in AncestorsOrSelf(p, k - 1))}

\* titles of n folders, up to renaming: a name is used only after the
\* names before it in FolderNames (the program compares titles for
\* equality and emptiness only)
TitleVectors(n) ==
    {t \in [1..n -> {""} \cup Range(FolderNames)] :
        \A k \in 1..n : \A i \in 2..Len(FolderNames) :
            t[k] = FolderNames[i] => \E j \in 1..(k - 1) : t[j] = FolderNames[i - 1]}

StructFiles(max) ==
    UNION {
        {[n |-> n, parent |-> p, title |-> t, links |-> ls[1], style |-> ls[2],
          hts |-> <<SampleTs>>, ats |-> <<>>] :
            p \in ParentVectors(n), t \in TitleVectors(n),
            ls \in {<<"none", "dl">>, <<"empty", "dl">>, <<"some", "dl">>,
                    <<"some", "h1dl">>, <<"some", "bare">>}} : n \in 0..max}

StampFiles ==
    {[n |-> 1, parent |-> <<0>>, title |-> <<"A">>, links |-> "some", style |-> "dl",
      hts |-> h, ats |-> a] :
        h \in TsAttrs, a \in {<<>>, <<SampleTs>>, <<(<<"x">>)>>}}

Files(max) == StructFiles(max) \cup StampFiles

\* the folders directly inside folder k (k = 0: the top-level folders)
SubFolders(f, k) == SelectIdx([j \in 1..f.n |-> f.parent[j] = k], 1)

NLinks(f, k) == IF f.links = "some" THEN (IF k = 1 THEN 2 ELSE 1) ELSE 0

HasDL(f, k) == f.links # "none" \/ SubFolders(f, k) # <<>>

LinkTitle(k, j) == LinkNames[2 * (k - 1) + j]

\* the A element of link j of folder k; folder 1's second link has no href
LinkEl(f, k, j) ==
    El("A", LinkTitle(k, j),
       [add_date      |-> <<SampleTs>>,
        last_modified |-> IF k = 1 /\ j = 1 THEN f.ats ELSE <<>>,
        href          |-> IF k = 1 /\ j = 2 THEN <<>> ELSE <<UrlNames[2 * (k - 1) + j]>>],
       <<>>)

PEl == El("P", "", NoAttrs, <<>>)

RECURSIVE FolderEls(_, _)
\* <H3>title</H3> and, when the folder has one, its <DL><p> ... </DL>
FolderEls(f, k) ==
    LET h3 == El("H3", f.title[k],
                 [add_date      |-> IF k = 1 THEN f.hts ELSE <<SampleTs>>,
                  last_modified |-> <<>>, href |-> <<>>], <<>>)
        sub == SubFolders(f, k)
        dt(j) == El("DT", "", NoAttrs,
                    FolderEls(f, sub[j]) \o (IF HasDL(f, sub[j]) THEN <<PEl>> ELSE <<>>))
        dl == El("DL", "", NoAttrs,
                 <<PEl>>
                 \o [j \in 1..NLinks(f, k) |-> El("DT", "", NoAttrs, <<LinkEl(f, k, j)>>)]
                 \o [j \in 1..Len(sub) |-> dt(j)])
    IN  <<h3>> \o (IF HasDL(f, k) THEN <<dl>> ELSE <<>>)

\* goquery.NewDocumentFromReader on the file: the element tree the HTML
\* parser builds (html > head, body)
HtmlDoc(f) ==
    LET tops == SubFolders(f, 0)
        topDL == El("DL", "", NoAttrs,
                    <<PEl>> \o [i \in 1..Len(tops) |->
                        El("DT", "", NoAttrs,
                           FolderEls(f, tops[i])
                           \o (IF HasDL(f, tops[i]) THEN <<PEl>> ELSE <<>>))])
        body == CASE f.style = "dl"   -> <<topDL, PEl>>
                  [] f.style = "h1dl" -> <<El("H1", "Bookmarks", NoAttrs, <<>>), topDL, PEl>>
                  [] f.style = "bare" -> Concat([i \in 1..Len(tops) |-> FolderEls(f, tops[i])])
    IN  El("HTML", "", NoAttrs,
           <<El("HEAD", "", NoAttrs, <<>>), El("BODY", "", NoAttrs, body)>>)

(***************************************************************************)
(* Bookmark and parseBookmarks.                                            *)
(***************************************************************************)
Bookmark(title, url, parent, bookmarks, addAt, updateAt) ==
    [Title |-> title, URL |-> url, Parent |-> parent, Bookmarks |-> bookmarks,
     AddAt |-> addAt, UpdateAt |-> updateAt]

\* Bookmark{}
ZeroBookmark == Bookmark("", "", "", <<>>, <<>>, <<>>)

\* every DT child taken as a link, its first child not tested for being an A
LinkNodes_NoTest(d, dlNode) ==
    LET dts == ChildrenFiltered(d, dlNode, "DT")
    IN  [i \in DOMAIN dts |-> First(Children(d, <<dts[i]>>))]

\* the DT children of dlNode whose first child is an A, in order
LinkNodes(d, dlNode) ==
    LET dts == ChildrenFiltered(d, dlNode, "DT")
        ok  == SelectIdx([j \in DOMAIN dts |-> Is(d, First(Children(d, <<dts[j]>>)), "A")], 1)
    IN  [i \in DOMAIN ok |-> First(Children(d, <<dts[ok[i]]>>))]

\* the sub-bookmarks collected from the DL that follows the header
SubBookmarks(d, dlNode) ==
    LET as == LinkNodes(d, dlNode)
    IN  [i \in DOMAIN as |->
            Bookmark(Text(d, as[i]), AttrOr(d, as[i], "href", ""), "", <<>>,
                     parseTime(AttrOr(d, as[i], "add_date", <<>>)).t,
                     parseTime(AttrOr(d, as[i], "last_modified", <<>>)).t)]

\* the parent lookup without the test that an H3 precedes the DL
ParentOf_NoH3Test(d, header) ==
    LET parentDL == SelParent(d, SelParent(d, header))
    IN  IF Is(d, parentDL, "DL") THEN Text(d, SelPrev(d, parentDL)) ELSE ""

\* the title of the enclosing folder as the program finds it
ParentOf(d, header) ==
    LET parentDL == SelParent(d, SelParent(d, header))
    IN  IF Is(d, parentDL, "DL") /\ Is(d, SelPrev(d, parentDL), "H3")
        THEN Text(d, SelPrev(d, parentDL))
        ELSE ""

\* the body of the Each callback: the Bookmark built for one H3
HeaderBookmark(d, header) ==
    LET dlNode == SelNext(d, header)
    IN  Bookmark(Text(d, header), "", ParentOf(d, header),
                 IF Is(d, dlNode, "DL") THEN SubBookmarks(d, dlNode) ELSE <<>>,
                 parseTime(AttrOr(d, header, "add_date", <<>>)).t,
                 parseTime(AttrOr(d, header, "last_modified", <<>>)).t)

\* what the callback prints for one H3: the parseTime failures, in call order
HeaderLog(d, header) ==
    LET dlNode == SelNext(d, header)
        as     == IF Is(d, dlNode, "DL") THEN LinkNodes(d, dlNode) ELSE <<>>
    IN  parseTime(AttrOr(d, header, "add_date", <<>>)).log
        \o parseTime(AttrOr(d, header, "last_modified", <<>>)).log
        \o Concat([i \in DOMAIN as |->
               parseTime(AttrOr(d, as[i], "add_date", <<>>)).log
               \o parseTime(AttrOr(d, as[i], "last_modified", <<>>)).log])

ParseLog(d) ==
    LET hs == Find(d, "H3") IN Concat([k \in DOMAIN hs |-> HeaderLog(d, <<hs[k]>>)])

\* parseBookmarks, slice form: one record per H3, in document order
ParseToSlice(d) ==
    LET hs == Find(d, "H3") IN [k \in DOMAIN hs |-> HeaderBookmark(d, <<hs[k]>>)]

\* the map keeping the first H3 of a title instead of the last
ParseToMap_KeepFirst(d) ==
    LET all == ParseToSlice(d)
    IN  [t \in {all[k].Title : k \in DOMAIN all} |->
            all[CHOOSE k \in DOMAIN all :
                    /\ all[k].Title = t
                    /\ \A j \in DOMAIN all : all[j].Title = t => j >= k]]

\* parseBookmarks, map form: bookmarkMap after the Each loop; a later H3
\* replaces an earlier one with the same title
ParseToMap(d) ==
    LET all == ParseToSlice(d)
    IN  [t \in {all[k].Title : k \in DOMAIN all} |->
            all[CHOOSE k \in DOMAIN all :
                    /\ all[k].Title = t
                    /\ \A j \in DOMAIN all : all[j].Title = t => j <= k]]

\* the slices `for _, bookmark := range bookmarkMap` can produce: Go leaves
\* the iteration order of a map unspecified
MapOrders(m) ==
    LET keys == DOMAIN m
        n    == Cardinality(keys)
    IN  {[i \in 1..n |-> m[ks[i]]] : ks \in {s \in [1..n -> keys] : Range(s) = keys}}

\* the flat collections parseBookmarks can return
parseBookmarks(v, d) ==
    IF v = "slice" THEN {ParseToSlice(d)} ELSE MapOrders(ParseToMap(d))

(***************************************************************************)
(* The flat collections buildTree is run on directly: up to MaxRecords     *)
(* folder records whose Title and Parent range over "" and three names,    *)
(* up to renaming, optionally followed by a second copy of one of the      *)
(* records (a folder met twice).                                           *)
(***************************************************************************)
FlatNames == SubSeq(FolderNames, 1, 3)

\* the strings of a collection in the order Title, Parent, Title, Parent...
FlatStrings(n) ==
    {s \in [1..(2 * n) -> {""} \cup Range(FlatNames)] :
        \A k \in 1..(2 * n) : \A i \in 2..Len(FlatNames) :
            s[k] = FlatNames[i] => \E j \in 1..(k - 1) : s[j] = FlatNames[i - 1]}

FreeCollections ==
    UNION {
        {[k \in 1..n |-> Bookmark(s[2 * k - 1], "", s[2 * k], <<>>, <<>>, <<>>)] :
            s \in FlatStrings(n)} : n \in 0..MaxRecords}

FlatCollections ==
    FreeCollections
    \cup UNION {{Append(c, c[i]) : i \in DOMAIN c} : c \in FreeCollections}

(***************************************************************************)
(* buildTree, buildSubTree and json.Marshal.                               *)
(***************************************************************************)
\* findRootFolder falling back to the first record instead of nil
findRootFolder_FirstAsDefault(bs) ==
    IF \E i \in DOMAIN bs : bs[i].Parent = ""
    THEN CHOOSE i \in DOMAIN bs :
             bs[i].Parent = "" /\ \A j \in 1..(i - 1) : bs[j].Parent # ""
    ELSE IF bs = <<>> THEN 0 ELSE 1

\* findRootFolder: the index of the first record without a parent, 0 for nil
findRootFolder(bs) ==
    IF \E i \in DOMAIN bs : bs[i].Parent = ""
    THEN CHOOSE i \in DOMAIN bs :
             bs[i].Parent = "" /\ \A j \in 1..(i - 1) : bs[j].Parent # ""
    ELSE 0

RECURSIVE BookmarkAt(_, _)
\* the Bookmark a *Bookmark into the tree points at
BookmarkAt(node, path) ==
    IF path = <<>> THEN node ELSE BookmarkAt(node.Bookmarks[Head(path)], Tail(path))

RECURSIVE AppendAt(_, _, _)
\* parent.Bookmarks = append(parent.Bookmarks, child), parent at path
AppendAt(node, path, child) ==
    IF path = <<>> THEN [node EXCEPT !.Bookmarks = Append(@, child)]
    ELSE [node EXCEPT !.Bookmarks[Head(path)] = AppendAt(@, Tail(path), child)]

\* the loop test taking every record that has a parent
Matches_AnyParent(b, parent) == b.Parent # ""

\* the loop test refusing a record that names itself as its parent
Matches_NoSelf(b, parent) == b.Parent = parent.Title /\ b.Title # b.Parent

\* the loop test comparing the record's Title instead of its Parent
Matches_Title(b, parent) == b.Title = parent.Title

\* the test of the loop in buildSubTree
Matches(b, parent) == b.Parent = parent.Title

RECURSIVE Marshal(_)
\* json.Marshal of a Bookmark: the fields written, in struct order
Marshal(b) ==
    <<<<"title", b.Title>>>>
    \o (IF b.URL # "" THEN <<<<"url", b.URL>>>> ELSE <<>>)
    \o (IF Len(b.Bookmarks) > 0
        THEN <<<<"bookmarks", [i \in DOMAIN b.Bookmarks |-> Marshal(b.Bookmarks[i])]>>>>
        ELSE <<>>)
    \o (IF b.AddAt # <<>> THEN <<<<"addAt", b.AddAt[1]>>>> ELSE <<>>)
    \o (IF b.UpdateAt # <<>> THEN <<<<"updateAt", b.UpdateAt[1]>>>> ELSE <<>>)

\* the seconds of 0000-01-01T00:00:00Z (negated) and 9999-12-31T23:59:59Z
YearZeroMag == <<6, 2, 1, 6, 7, 2, 1, 9, 2, 0, 0>>

YearMaxMag == <<2, 5, 3, 4, 0, 2, 3, 0, 0, 7, 9, 9>>

\* Time.MarshalJSON accepts the instant: its year lies in [0, 9999]
YearInRange(t) ==
    IF t.sec.neg THEN ~MagLess(YearZeroMag, t.sec.mag) ELSE ~MagLess(YearMaxMag, t.sec.mag)

RECURSIVE Marshalable(_)
\* json.Marshal returns no error for the tree
Marshalable(b) ==
    /\ b.AddAt # <<>> => YearInRange(b.AddAt[1])
    /\ b.UpdateAt # <<>> => YearInRange(b.UpdateAt[1])
    /\ \A i \in DOMAIN b.Bookmarks : Marshalable(b.Bookmarks[i])

(***************************************************************************)
(* State.  bookmarks is the flat slice; root is the index findRootFolder   *)
(* returned (the tree under construction is bookmarks[root] itself, since  *)
(* root points into the slice); stack holds one frame [path, i] per active *)
(* call of buildSubTree, path naming its parent node inside the tree and i *)
(* its loop index; attached records, for every append buildSubTree made,   *)
(* the path of the new node and the index of the flat record copied.       *)
(* buildSubTree reads bookmarks[i] by value and writes only through        *)
(* parent, so a copy placed in the tree never changes the flat record it   *)
(* was copied from, except for the root.                                   *)
(***************************************************************************)
VARIABLES variant, file, doc, pc, bookmarks, root, stack, attached, tree, log, out, runs

vars == <<variant, file, doc, pc, bookmarks, root, stack, attached, tree, log, out, runs>>

NoFile ==
    [n |-> 0, parent |-> <<>>, title |-> <<>>, links |-> "none", style |-> "dl",
     hts |-> <<>>, ats |-> <<>>]

InitWith(fs) ==
    /\ variant \in {"slice", "map"}
    /\ file \in fs
    /\ doc = HtmlDoc(file)
    /\ pc = "parse"
    /\ bookmarks = <<>>
    /\ root = 0
    /\ stack = <<>>
    /\ attached = <<>>
    /\ tree = ZeroBookmark
    /\ log = <<>>
    /\ out = <<>>
    /\ runs = <<>>

\* main on a bookmark file
Init == InitWith(Files(MaxFolders))

\* buildTree called on a flat collection
InitFlat ==
    /\ variant = "slice"
    /\ file = NoFile
    /\ doc = HtmlDoc(NoFile)
    /\ pc = "build"
    /\ bookmarks \in FlatCollections
    /\ root = 0
    /\ stack = <<>>
    /\ attached = <<>>
    /\ tree = ZeroBookmark
    /\ log = <<>>
    /\ out = <<>>
    /\ runs = <<>>

\* bookmarks := parseBookmarks(doc)
ParseBookmarks ==
    /\ pc = "parse"
    /\ bookmarks' \in parseBookmarks(variant, doc)
    /\ log' = log \o ParseLog(doc)
    /\ pc' = "build"
    /\ UNCHANGED <<variant, file, doc, root, stack, attached, tree, out, runs>>

\* buildTree: no record without a parent
RootNotFound ==
    /\ pc = "build"
    /\ findRootFolder(bookmarks) = 0
    /\ log' = Append(log, "root folder not found")
    /\ tree' = ZeroBookmark
    /\ pc' = "built"
    /\ UNCHANGED <<variant, file, doc, bookmarks, root, stack, attached, out, runs>>

\* buildTree: the root is found and buildSubTree(root, bookmarks) is called
RootFound ==
    /\ pc = "build"
    /\ findRootFolder(bookmarks) # 0
    /\ root' = findRootFolder(bookmarks)
    /\ stack' = <<[path |-> <<>>, i |-> 1]>>
    /\ pc' = "sub"
    /\ UNCHANGED <<variant, file, doc, bookmarks, attached, tree, log, out, runs>>

Top == stack[Len(stack)]

TopMatches ==
    /\ Top.i <= Len(bookmarks)
    /\ Matches(bookmarks[Top.i], BookmarkAt(bookmarks[root], Top.path))

\* buildSubTree: bookmarks[i] matches; it is appended and the call recurses
Attach ==
    /\ pc = "sub"
    /\ TopMatches
    /\ Len(stack) < MaxDepth
    /\ LET n    == Len(BookmarkAt(bookmarks[root], Top.path).Bookmarks) + 1
           kid  == Append(Top.path, n)
       IN  /\ bookmarks' = [bookmarks EXCEPT
                               ![root] = AppendAt(@, Top.path, bookmarks[Top.i])]
           /\ attached' = Append(attached, [path |-> kid, idx |-> Top.i])
           /\ stack' = Append([stack EXCEPT ![Len(stack)].i = @ + 1],
                              [path |-> kid, i |-> 1])
    /\ UNCHANGED <<variant, file, doc, pc, root, tree, log, out, runs>>

\* the recursion hits the stack limit of the Go runtime: the program dies
StackOverflow ==
    /\ pc = "sub"
    /\ TopMatches
    /\ Len(stack) = MaxDepth
    /\ pc' = "overflow"
    /\ UNCHANGED <<variant, file, doc, bookmarks, root, stack, attached, tree, log, out, runs>>

\* buildSubTree: bookmarks[i] does not match
Skip ==
    /\ pc = "sub"
    /\ Top.i <= Len(bookmarks)
    /\ ~TopMatches
    /\ stack' = [stack EXCEPT ![Len(stack)].i = @ + 1]
    /\ UNCHANGED <<variant, file, doc, pc, bookmarks, root, attached, tree, log, out, runs>>

\* buildSubTree returns; when it is the outermost call, buildTree returns *root
Return ==
    /\ pc = "sub"
    /\ Top.i > Len(bookmarks)
    /\ stack' = SubSeq(stack, 1, Len(stack) - 1)
    /\ IF Len(stack) = 1
       THEN pc' = "built" /\ tree' = bookmarks[root]
       ELSE UNCHANGED <<pc, tree>>
    /\ UNCHANGED <<variant, file, doc, bookmarks, root, attached, log, out, runs>>

\* main: json.Marshal(tree), then the JSON or the error is printed
PrintJSON ==
    /\ pc = "built"
    /\ out' = IF Marshalable(tree) THEN Marshal(tree)
              ELSE <<<<"error converting to JSON", "year outside of range [0,9999]">>>>
    /\ pc' = "done"
    /\ UNCHANGED <<variant, file, doc, bookmarks, root, stack, attached, tree, log, runs>>

\* the program is started again on the same file
Rerun ==
    /\ pc = "done"
    /\ runs = <<>>
    /\ runs' = <<out>>
    /\ pc' = "parse"
    /\ bookmarks' = <<>>
    /\ root' = 0
    /\ stack' = <<>>
    /\ attached' = <<>>
    /\ tree' = ZeroBookmark
    /\ log' = <<>>
    /\ out' = <<>>
    /\ UNCHANGED <<variant, file, doc>>

BuildStep == RootNotFound \/ RootFound \/ Attach \/ StackOverflow \/ Skip \/ Return

Next == ParseBookmarks \/ BuildStep \/ PrintJSON

NextFlat == BuildStep

NextRerun == Next \/ Rerun

Spec == Init /\ [][Next]_vars

SpecFlat == InitFlat /\ [][NextFlat]_vars

SpecRerun == Init /\ [][NextRerun]_vars

\* buildTree runs to its end once called: a sequential program keeps stepping
FairFlat == SpecFlat /\ WF_vars(NextFlat)

(***************************************************************************)
(* Notions the properties are stated with.                                 *)
(***************************************************************************)
HasRoot == \E i \in DOMAIN bookmarks : bookmarks[i].Parent = ""

RootNotFoundMsg == "root folder not found"

\* the titles of the records whose Parent is in T
TitlesUnder(T) == {bookmarks[i].Title : i \in {j \in DOMAIN bookmarks : bookmarks[j].Parent \in T}}

RECURSIVE Closure(_)
Closure(T) == IF TitlesUnder(T) \subseteq T THEN T ELSE Closure(T \cup TitlesUnder(T))

\* the titles reached from t by one or more Parent-to-Title links
ReachedFrom(t) == Closure(TitlesUnder({t}))

\* t lies on a cycle of Parent-to-Title links (a record with Parent = Title = t
\* is a cycle of length one)
OnCycle(t) == t \in ReachedFrom(t)

HasCycle == \E i \in DOMAIN bookmarks : OnCycle(bookmarks[i].Title)

RootTitle == bookmarks[findRootFolder(bookmarks)].Title

\* a cycle can be reached from the root by Parent-to-Title links
CycleReachable ==
    /\ HasRoot
    /\ \E t \in {RootTitle} \cup ReachedFrom(RootTitle) : OnCycle(t)

AllTitlesNonEmpty == \A i \in DOMAIN bookmarks : bookmarks[i].Title # ""

\* record i names a parent title that no record of the collection has
Unreachable(i) ==
    /\ bookmarks[i].Parent # ""
    /\ \A j \in DOMAIN bookmarks : bookmarks[j].Title # bookmarks[i].Parent

\* the paths of the nodes buildTree has placed: the root and every append
Placed == {<<>>} \cup {attached[e].path : e \in DOMAIN attached}

(***************************************************************************)
(* C1 (missing root).  When no record of the flat collection has an empty  *)
(* Parent (the empty collection included), buildTree prints "root folder   *)
(* not found" and returns Bookmark{}: it makes no call of buildSubTree,    *)
(* attaches nothing and does not die.                                      *)
(***************************************************************************)
C1_MissingRoot ==
    (pc # "build" /\ ~HasRoot) =>
        /\ pc = "built"
        /\ tree = ZeroBookmark
        /\ log = <<RootNotFoundMsg>>
        /\ stack = <<>>
        /\ attached = <<>>
        /\ root = 0

C1_Witness ==
    /\ pc = "built"
    /\ Len(bookmarks) = MaxRecords
    /\ ~HasRoot
    /\ tree = ZeroBookmark

(***************************************************************************)
(* C4 (unreachable record).  A record whose Parent is non-empty and is the *)
(* Title of no record is never the root and is never appended anywhere in  *)
(* the tree; nothing is printed for it (the only message buildTree prints  *)
(* is the one for a missing root).                                         *)
(***************************************************************************)
C4_UnreachableDropped ==
    \A i \in DOMAIN bookmarks :
        Unreachable(i) =>
            /\ root # i
            /\ \A e \in DOMAIN attached : attached[e].idx # i
            /\ (HasRoot => log = <<>>)
            /\ \A m \in DOMAIN log : log[m] = RootNotFoundMsg

C4_Witness ==
    /\ pc = "built"
    /\ attached # <<>>
    /\ \E i \in DOMAIN bookmarks : Unreachable(i)

(***************************************************************************)
(* C7 (cyclic linkage).  As claimed: whenever the collection has a root    *)
(* candidate and holds a cycle of Parent-to-Title links, buildTree never   *)
(* returns.                                                                *)
(***************************************************************************)
C7_AnyCycleNeverReturns == (HasRoot /\ HasCycle) => pc # "built"

(***************************************************************************)
(* C7, amended.  Whenever the collection has a root candidate and a cycle  *)
(* of Parent-to-Title links can be reached from the root's title,          *)
(* buildTree never returns.                                                *)
(***************************************************************************)
C7_ReachableCycleNeverReturns == CycleReachable => pc # "built"

C7_Witness ==
    /\ pc = "overflow"
    /\ CycleReachable
    /\ \A i \in DOMAIN bookmarks : bookmarks[i].Title # bookmarks[i].Parent

(***************************************************************************)
(* C10 (termination on acyclic input).  When every Title is non-empty and  *)
(* the Parent-to-Title links form no cycle, buildTree returns; and when    *)
(* the root's Title is empty it does not return, the root matching its     *)
(* own scan.                                                               *)
(***************************************************************************)
C10_AcyclicTerminates ==
    /\ (AllTitlesNonEmpty /\ ~HasCycle) ~> (pc = "built")
    /\ []((HasRoot /\ RootTitle = "") => pc # "built")

C10_Witness ==
    /\ pc = "built"
    /\ AllTitlesNonEmpty
    /\ ~HasCycle
    /\ \E e \in DOMAIN attached : Len(attached[e].path) = 2

(***************************************************************************)
(* Notions about the bookmark file and the tree.                           *)
(***************************************************************************)
\* exactly one top-level folder, titles non-empty and pairwise distinct
WellFormed(f) ==
    /\ f.n >= 1
    /\ Len(SubFolders(f, 0)) = 1
    /\ \A k \in 1..f.n : f.title[k] # ""
    /\ \A j, k \in 1..f.n : f.title[j] = f.title[k] => j = k

\* the title of the folder enclosing folder k in the file, "" at top level
EnclosingTitle(f, k) == IF f.parent[k] = 0 THEN "" ELSE f.title[f.parent[k]]

\* what the file puts directly inside folder k
DirectItems(f, k) == NLinks(f, k) + Len(SubFolders(f, k))

RECURSIVE AllPaths(_)
\* the paths of all nodes of a tree
AllPaths(b) ==
    {<<>>} \cup UNION {{<<i>> \o q : q \in AllPaths(b.Bookmarks[i])} : i \in DOMAIN b.Bookmarks}

NodesTitled(b, t) == {p \in AllPaths(b) : BookmarkAt(b, p).Title = t}

ChildTitles(b) == [i \in DOMAIN b.Bookmarks |-> b.Bookmarks[i].Title]

Finished == pc \in {"built", "done"}

(***************************************************************************)
(* C2 (well-formed round trip).  For a file with exactly one top-level     *)
(* folder and pairwise distinct non-empty folder titles, the program       *)
(* returns a tree whose root is the top-level folder, in which every       *)
(* folder is placed exactly once and has as many children as the file      *)
(* gives it direct links plus direct subfolders.                           *)
(***************************************************************************)
C2_RoundTrip ==
    WellFormed(file) =>
        /\ pc # "overflow"
        /\ Finished =>
            /\ tree.Title = file.title[1]
            /\ tree.Parent = ""
            /\ Len(attached) = file.n - 1
            /\ {BookmarkAt(tree, p).Title : p \in Placed} = Range(file.title)
            /\ \A p \in Placed :
                   LET b == BookmarkAt(tree, p)
                       k == CHOOSE j \in 1..file.n : file.title[j] = b.Title
                   IN  Len(b.Bookmarks) = DirectItems(file, k)

C2_Witness ==
    /\ pc = "done"
    /\ WellFormed(file)
    /\ file.n = 2
    /\ Len(tree.Bookmarks) = 3
    /\ Len(tree.Bookmarks[3].Bookmarks) = 1
    /\ tree.Bookmarks[1].Bookmarks = <<>>

(***************************************************************************)
(* C3 (duplicate titles).  The files of the claim: a root folder holding   *)
(* two folders of one title W, each with one link of its own.              *)
(***************************************************************************)
TwoWork(f) ==
    /\ f.n = 3
    /\ f.parent = <<0, 1, 1>>
    /\ f.links = "some"
    /\ f.title[2] = f.title[3]
    /\ f.title[2] # ""
    /\ f.title[1] # ""
    /\ f.title[1] # f.title[2]

C5_SameOutputTwice == (pc = "done" /\ runs # <<>>) => out = runs[1]

(***************************************************************************)
(* C9 (parent discovery).  The record of a folder carries the title of     *)
(* the folder whose DL encloses it, and the empty string when it is a      *)
(* top-level folder (its grandparent is no DL, or no H3 precedes that DL); *)
(* so a folder inside a folder of empty title has an empty Parent.  With   *)
(* the map form this holds of the record kept for each title, the one of   *)
(* the last folder with that title.                                        *)
(***************************************************************************)
C9_ParentDiscovery ==
    pc # "parse" =>
        /\ variant = "slice" =>
            /\ Len(bookmarks) = file.n
            /\ \A k \in 1..file.n :
                   /\ bookmarks[k].Title = file.title[k]
                   /\ bookmarks[k].Parent = EnclosingTitle(file, k)
        /\ variant = "map" =>
            /\ {bookmarks[i].Title : i \in DOMAIN bookmarks} = Range(file.title)
            /\ Len(bookmarks) = Cardinality(Range(file.title))
            /\ \A i \in DOMAIN bookmarks :
                   \E k \in 1..file.n :
                       /\ file.title[k] = bookmarks[i].Title
                       /\ \A j \in (k + 1)..file.n : file.title[j] # file.title[k]
                       /\ bookmarks[i].Parent = EnclosingTitle(file, k)

C9_Witness ==
    /\ pc = "build"
    /\ variant = "slice"
    /\ \E k \in 1..file.n :
           /\ file.parent[k] # 0
           /\ file.title[file.parent[k]] = ""
           /\ file.title[k] # ""
           /\ bookmarks[k].Parent = ""
    /\ \E k \in 1..file.n : bookmarks[k].Parent # ""

(***************************************************************************)
(* C6 (timestamp parsing).  What a timestamp attribute denotes, read off   *)
(* its text.                                                               *)
(***************************************************************************)
DecimalChars == {"0", "1", "2", "3", "4", "5", "6", "7", "8", "9"}

Unsigned(s) == IF s # <<>> /\ s[1] \in {"+", "-"} THEN Tail(s) ELSE s

\* an optional sign followed by one or more decimal digits
IsDecimalText(s) ==
    /\ Unsigned(s) # <<>>
    /\ \A i \in DOMAIN Unsigned(s) : Unsigned(s)[i] \in DecimalChars

RECURSIVE Significant(_)
\* the digits without leading zeros
Significant(cs) ==
    IF Len(cs) > 1 /\ Head(cs) = "0" THEN Significant(Tail(cs)) ELSE cs

\* the value lies in -2^63 .. 2^63 - 1; among the texts tried, the ones of
\* 19 significant digits that do are 2^63 - 1 and -2^63
FitsInt64(s) ==
    \/ Len(Significant(Unsigned(s))) <= 18
    \/ s = MaxInt64Ts
    \/ s = <<"-">> \o OverInt64Ts

CharValue(c) ==
    CASE c = "0" -> 0 [] c = "1" -> 1 [] c = "2" -> 2 [] c = "3" -> 3 [] c = "4" -> 4
      [] c = "5" -> 5 [] c = "6" -> 6 [] c = "7" -> 7 [] c = "8" -> 8 [] c = "9" -> 9

RECURSIVE TextValue(_, _)
\* the number a short digit text denotes
TextValue(cs, acc) ==
    IF cs = <<>> THEN acc ELSE TextValue(Tail(cs), 10 * acc + CharValue(Head(cs)))

RECURSIVE MagValue(_, _)
MagValue(ds, acc) == IF ds = <<>> THEN acc ELSE MagValue(Tail(ds), 10 * acc + Head(ds))

\* the seconds since the epoch a parsed instant stands for
Seconds(t) == (IF t.sec.neg THEN -1 ELSE 1) * MagValue(t.sec.mag, 0)

\* the instant t (a *time.Time) is the one the text s denotes
DenotedBy(t, s) ==
    LET sig == Significant(Unsigned(s))
    IN  /\ t # <<>>
        /\ Len(t[1].sec.mag) = Len(sig)
        /\ \A i \in DOMAIN sig : t[1].sec.mag[i] = CharValue(sig[i])
        /\ t[1].sec.neg = (s[1] = "-" /\ sig # <<"0">>)
        /\ Len(sig) <= 9 =>
               Seconds(t[1]) = (IF s[1] = "-" THEN -1 ELSE 1) * TextValue(sig, 0)

\* As claimed: absent for a missing, empty or non-decimal attribute, the
\* denoted instant for every decimal integer
StampAsClaimed(attr, t) ==
    IF attr = <<>> \/ attr[1] = <<>> THEN t = <<>>
    ELSE IF ~IsDecimalText(attr[1]) THEN t = <<>>
    ELSE DenotedBy(t, attr[1])

\* Amended: a decimal integer outside the int64 range is absent as well
StampAmended(attr, t) ==
    IF attr = <<>> \/ attr[1] = <<>> THEN t = <<>>
    ELSE IF ~IsDecimalText(attr[1]) \/ ~FitsInt64(attr[1]) THEN t = <<>>
    ELSE DenotedBy(t, attr[1])

\* the messages parseTime prints for the attribute, as claimed / amended
LoggedAsClaimed(attr) ==
    IF attr # <<>> /\ attr[1] # <<>> /\ ~IsDecimalText(attr[1]) THEN 1 ELSE 0

LoggedAmended(attr) ==
    IF attr # <<>> /\ attr[1] # <<>> /\ (~IsDecimalText(attr[1]) \/ ~FitsInt64(attr[1]))
    THEN 1 ELSE 0

\* the record of the only folder is emitted with its title, parent and
\* links, whatever the timestamps
OtherFieldsIntact ==
    LET b == bookmarks[1]
    IN  /\ Len(bookmarks) = 1
        /\ b.Title = file.title[1]
        /\ b.Parent = ""
        /\ b.URL = ""
        /\ b.UpdateAt = <<>>
        /\ Len(b.Bookmarks) = NLinks(file, 1)
        /\ file.links = "some" =>
            /\ ChildTitles(b) = <<LinkTitle(1, 1), LinkTitle(1, 2)>>
            /\ b.Bookmarks[1].URL = UrlNames[1]
            /\ b.Bookmarks[2].URL = ""
            /\ DenotedBy(b.Bookmarks[1].AddAt, SampleTs)
            /\ b.Bookmarks[2].UpdateAt = <<>>

\* C6 as claimed, on the files of one folder, right after extraction.
C6_AsClaimed ==
    (pc = "build" /\ file.n = 1) =>
        /\ OtherFieldsIntact
        /\ StampAsClaimed(file.hts, bookmarks[1].AddAt)
        /\ file.links = "some" => StampAsClaimed(file.ats, bookmarks[1].Bookmarks[1].UpdateAt)
        /\ Len(log) = LoggedAsClaimed(file.hts)
                      + (IF file.links = "some" THEN LoggedAsClaimed(file.ats) ELSE 0)

(***************************************************************************)
(* C6, amended.  parseTime yields an absent instant when the attribute is  *)
(* missing or empty; an absent instant, after printing a message and       *)
(* without stopping extraction (the record is emitted with its other       *)
(* fields intact), when the attribute is non-empty and is not an           *)
(* optionally signed decimal integer in the int64 range; and otherwise     *)
(* the instant that many seconds after the Unix epoch.                     *)
(***************************************************************************)
C6_Timestamps ==
    (pc = "build" /\ file.n = 1) =>
        /\ OtherFieldsIntact
        /\ StampAmended(file.hts, bookmarks[1].AddAt)
        /\ file.links = "some" => StampAmended(file.ats, bookmarks[1].Bookmarks[1].UpdateAt)
        /\ Len(log) = LoggedAmended(file.hts)
                      + (IF file.links = "some" THEN LoggedAmended(file.ats) ELSE 0)
        /\ \A m \in DOMAIN log : log[m] = "error parsing timestamp"

C6_Witness ==
    /\ pc = "build"
    /\ file.n = 1
    /\ file.hts = <<OverInt64Ts>>
    /\ file.ats = <<(<<"x">>)>>
    /\ bookmarks[1].AddAt = <<>>
    /\ Len(log) = 2
    /\ Len(bookmarks[1].Bookmarks) = 2

AttachedUnder(p) ==
    LET es == SelectIdx([e \in DOMAIN attached |->
                  SubSeq(attached[e].path, 1, Len(attached[e].path) - 1) = p], 1)
    IN  [i \in DOMAIN es |-> attached[es[i]].idx]

=============================================================================
